---- MODULE Spec2Model ----
(***************************************************************************)
(* State-machine model of the subscription transport manager               *)
(* (class WebSocketClient, client/web-socket.ts) and of the block-type     *)
(* filters of modules/blockchain-streams.ts.                               *)
(*                                                                         *)
(* One WebSocketClient instance is modelled.  Its four private fields are  *)
(* the variables isOpen, explicitlyClosed, retriesCount and reconnectTimer.*)
(* Every call of subscribe() (by the caller, or by a reconnect timer)      *)
(* creates one entry of sess: the closure of that call (request,           *)
(* userOptions, transport, client, subscriptionId, registered listener).   *)
(* The event loop is modelled by interleaving: every action is one          *)
(* callback or one synchronous call run to completion.                      *)
(***************************************************************************)
EXTENDS Integers, Sequences, FiniteSets, TLC

(* ---------------------------- bounds ----------------------------------- *)
\* number of subscribe() calls (caller's and timers') in one behaviour
MaxSessions == 2
\* number of subscribe() calls made by the caller
MaxRoots == 2
\* number of messages (notifications and protocol errors) received in one behaviour
MaxEvents == 2

(* ------------------------- program constants --------------------------- *)
\* reconnectSettings.retries ?? -1
DefaultRetries == -1
\* reconnectSettings.delay ?? 1000
DefaultDelay == 1000

(* ----------------------------- inputs ---------------------------------- *)
\* "a value that is not there" (undefined) for the optional delay
NoDelay == 0 - 1
\* payload values of the notifications (result.data.value)
Values == {5, 20}
\* marker of a JSONRPCError handed to the callback
ErrorValue == 0 - 1
Requests == {"subscribeForHeadBlock"}

VARIABLES
    isOpen,            \* WebSocketClient.isOpen
    explicitlyClosed,  \* WebSocketClient.explicitlyClosed
    retriesCount,      \* WebSocketClient.retriesCount
    reconnectTimer,    \* WebSocketClient.reconnectTimer: 0 (undefined) or a timer handle
    timers,            \* the event loop's pending timeouts: records [id, delay]
    sess,              \* one record per subscribe() call, in call order
    last               \* history: the handler that ran in the last step, its outcome (out),
                       \* and what the caller's retries predicate returned if it was asked (fn)

vars == <<isOpen, explicitlyClosed, retriesCount, reconnectTimer, timers, sess, last>>

(* --------------------------- StreamOptions ----------------------------- *)
\* retries?: number | (() => boolean)
RetriesSet ==
    {[type |-> "undefined", n |-> 0], [type |-> "function", n |-> 0]}
        \cup {[type |-> "number", n |-> k] : k \in {0 - 1, 0, 1}}

\* autoReconnect?: boolean | { retries?, delay?, onFailed? }
AutoReconnectSet ==
    {[kind |-> "undefined", retries |-> [type |-> "undefined", n |-> 0],
      delay |-> NoDelay, onFailed |-> FALSE],
     [kind |-> "true", retries |-> [type |-> "undefined", n |-> 0],
      delay |-> NoDelay, onFailed |-> FALSE]}
        \cup {[kind |-> "object", retries |-> r, delay |-> d, onFailed |-> f] :
                 r \in RetriesSet, d \in {NoDelay}, f \in BOOLEAN}

\* every shape of userOptions: filter is the name of a predicate
AllUserOptions ==
    {[once |-> o, filter |-> f, onError |-> e, autoReconnect |-> a] :
        o \in BOOLEAN, f \in {"undefined", "gt10", "rejectAll"},
        e \in BOOLEAN, a \in AutoReconnectSet}

\* the userOptions of the single subscription: every reconnect setting with
\* the default filter, and every filter with autoReconnect absent or true
UserOptionsSet ==
    {o \in AllUserOptions :
        o.filter = "undefined" \/ o.autoReconnect.kind # "object"}

\* the options drawn when several subscriptions share the manager
SharedOptionsSet ==
    {o \in AllUserOptions :
        /\ ~o.once /\ o.filter = "undefined" /\ o.onError
        /\ o.autoReconnect.kind \in {"undefined", "object"}
        /\ o.autoReconnect.kind = "object" =>
              /\ o.autoReconnect.onFailed
              /\ o.autoReconnect.retries.type = "number"
              /\ o.autoReconnect.retries.n >= 0}

\* the options drawn to exercise the reconnect policy: every shape of
\* autoReconnect (absent, false, true, object), with and without a delay
PolicyOptionsSet ==
    {[once |-> FALSE, filter |-> "undefined", onError |-> TRUE, autoReconnect |-> a] :
        a \in {[kind |-> k, retries |-> [type |-> "undefined", n |-> 0],
                delay |-> NoDelay, onFailed |-> FALSE] :
                    k \in {"undefined", "false", "true"}}
              \cup {[kind |-> "object", retries |-> r, delay |-> d, onFailed |-> TRUE] :
                       r \in RetriesSet \cup {[type |-> "number", n |-> 2]},
                       d \in {NoDelay, 10}}}

\* WS_DEFAULT_OPTIONS
WS_DEFAULT_OPTIONS ==
    [once |-> FALSE, filter |-> "acceptAll", onError |-> FALSE,
     autoReconnect |-> [kind |-> "undefined",
                        retries |-> [type |-> "undefined", n |-> 0],
                        delay |-> NoDelay, onFailed |-> FALSE]]

\* const options = { ...WS_DEFAULT_OPTIONS, ...userOptions }
MergeOptions(userOptions) ==
    [once |-> userOptions.once,
     filter |-> IF userOptions.filter = "undefined"
                    THEN WS_DEFAULT_OPTIONS.filter ELSE userOptions.filter,
     onError |-> userOptions.onError,
     autoReconnect |-> userOptions.autoReconnect]

\* reconnectSettings: the object, {} for true, undefined otherwise
reconnectSettings(options) ==
    IF options.autoReconnect.kind = "object"
        THEN [defined |-> TRUE, retries |-> options.autoReconnect.retries,
              delay |-> options.autoReconnect.delay,
              onFailed |-> options.autoReconnect.onFailed]
    ELSE IF options.autoReconnect.kind = "true"
        THEN [defined |-> TRUE, retries |-> [type |-> "undefined", n |-> 0],
              delay |-> NoDelay, onFailed |-> FALSE]
    ELSE [defined |-> FALSE, retries |-> [type |-> "undefined", n |-> 0],
          delay |-> NoDelay, onFailed |-> FALSE]

\* the blocks a block subscription delivers: micro blocks carry no
\* isElectionBlock field, macro blocks carry it
Blocks ==
    {[hash |-> "h"],
     [hash |-> "h", isElectionBlock |-> TRUE],
     [hash |-> "h", isElectionBlock |-> FALSE]}

\* a variant that takes every block with the field for an election block
getBlockType_FieldOnly(block) ==
    IF "isElectionBlock" \notin DOMAIN block THEN "micro" ELSE "election"

\* getBlockType(block), for a defined block
getBlockType(block) ==
    IF "isElectionBlock" \notin DOMAIN block THEN "micro"
    ELSE IF block.isElectionBlock THEN "election"
    ELSE "macro"

isMicro(b) == getBlockType(b) = "micro"

isMacro(b) == getBlockType(b) = "macro"

isElection(b) == getBlockType(b) = "election"

\* the filter predicates by name: filter(result.data)
FilterAccepts(filter, v) ==
    CASE filter = "acceptAll" -> TRUE
      [] filter = "isMicro" -> isMicro(v)
      [] filter = "isMacro" -> isMacro(v)
      [] filter = "isElection" -> isElection(v)
      [] filter = "gt10" -> v > 10
      [] filter = "rejectAll" -> FALSE

(* ------------------------------ state ---------------------------------- *)
\* the closure of one subscribe() call
NewSession(parent, request, userOptions) ==
    [parent |-> parent,             \* 0: called by the caller; else the session whose timer called
     request |-> request,
     userOptions |-> userOptions,
     hs |-> "pending",              \* await client.request: "pending", "ok", "failed"
     sock |-> "connecting",         \* transport.connection: connecting, open, closing, errored, closed
     subscriptionId |-> 0,
     regAt |-> 0 - 1,               \* number of messages received when next() was called; -1: not called
     arrived |-> <<>>,              \* messages the client received (ErrorValue: a protocol error)
     got |-> <<>>,                  \* what the callback was invoked with, in order
     onErrorCalls |-> 0,            \* invocations of this closure's options.onError
     onFailedCalls |-> 0,           \* invocations of this closure's reconnectSettings.onFailed
     closeCalled |-> FALSE]         \* close() of this Subscription was called

Sessions == 1 .. Len(sess)

\* calls made by the caller, as opposed to calls made by a reconnect timer
Roots == {s \in Sessions : sess[s].parent = 0}

RECURSIVE RootOf(_)
\* the caller's call that call s is a reconnection of (s itself for a caller's call)
RootOf(s) == IF sess[s].parent = 0 THEN s ELSE RootOf(sess[s].parent)

RECURSIVE Received(_)
\* number of messages the clients of calls 1..n received
Received(n) == IF n = 0 THEN 0 ELSE Len(sess[n].arrived) + Received(n - 1)

\* the fields of the manager and the closures, as one value the handlers map
Cur ==
    [isOpen |-> isOpen, explicitlyClosed |-> explicitlyClosed,
     retriesCount |-> retriesCount, reconnectTimer |-> reconnectTimer,
     timers |-> timers, sess |-> sess]

Apply(st) ==
    /\ isOpen' = st.isOpen
    /\ explicitlyClosed' = st.explicitlyClosed
    /\ retriesCount' = st.retriesCount
    /\ reconnectTimer' = st.reconnectTimer
    /\ timers' = st.timers
    /\ sess' = st.sess

OptionsOf(st, s) == MergeOptions(st.sess[s].userOptions)

\* the handlers are assigned after the await: only a resolved call has them
Wired(st, s) == st.sess[s].hs = "ok"

\* the Subscription object reached the caller: reconnect calls drop theirs
Returned(st, s) == st.sess[s].parent = 0 /\ st.sess[s].hs = "ok"

\* the id the node assigns in the handshake: fresh for every subscription
NodeSubscriptionId(s) == s

(* ---------------------------- the manager ------------------------------ *)
\* clearReconnectTimer(): clearTimeout of the handle held, if any
clearReconnectTimer(st) ==
    IF st.reconnectTimer # 0
        THEN [st EXCEPT !.timers = {t \in @ : t.id # st.reconnectTimer},
                        !.reconnectTimer = 0]
        ELSE st

\* const maxRetries = reconnectSettings.retries ?? -1
MaxRetriesOf(settings) ==
    IF settings.retries.type = "undefined"
        THEN [type |-> "number", n |-> DefaultRetries]
        ELSE settings.retries

\* const delay = reconnectSettings.delay ?? 1000
DelayOf(settings) ==
    IF settings.delay = NoDelay THEN DefaultDelay ELSE settings.delay

\* a variant whose numeric bound permits one attempt too many
canKeepRetrying_Inclusive(maxRetries, count, fnResult) ==
    IF maxRetries.type = "number"
        THEN maxRetries.n < 0 \/ count <= maxRetries.n
    ELSE IF maxRetries.type = "function"
        THEN fnResult
    ELSE FALSE

\* canKeepRetrying(); fnResult is what the caller's predicate returns now
canKeepRetrying(maxRetries, count, fnResult) ==
    IF maxRetries.type = "number"
        THEN maxRetries.n < 0 \/ count < maxRetries.n
    ELSE IF maxRetries.type = "function"
        THEN fnResult
    ELSE FALSE

\* onError?.(...) of the closure of call s
CallOnError(st, s) ==
    IF OptionsOf(st, s).onError
        THEN [st EXCEPT !.sess[s].onErrorCalls = @ + 1]
        ELSE st

\* a variant that falls back to options.onError when onFailed is not configured
CallOnFailed_OrOnError(st, s) ==
    IF reconnectSettings(OptionsOf(st, s)).onFailed
        THEN [st EXCEPT !.sess[s].onFailedCalls = @ + 1]
        ELSE CallOnError(st, s)

\* reconnectSettings.onFailed?.() of the closure of call s
CallOnFailed(st, s) ==
    IF reconnectSettings(OptionsOf(st, s)).onFailed
        THEN [st EXCEPT !.sess[s].onFailedCalls = @ + 1]
        ELSE st

\* a variant that sets the new timer without clearing the one held
ScheduleReconnect_NoClear(st, s) ==
    LET st1 == [st EXCEPT !.retriesCount = @ + 1]
    IN  [st1 EXCEPT !.reconnectTimer = s,
                    !.timers = @ \cup {[id |-> s,
                        delay |-> DelayOf(reconnectSettings(OptionsOf(st, s)))]}]

\* this.reconnectTimer = setTimeout(..., delay): the handle is named after s
ScheduleReconnect(st, s) ==
    LET st1 == clearReconnectTimer([st EXCEPT !.retriesCount = @ + 1])
    IN  [st1 EXCEPT !.reconnectTimer = s,
                    !.timers = @ \cup {[id |-> s,
                        delay |-> DelayOf(reconnectSettings(OptionsOf(st, s)))]}]

\* what transport.connection.onclose decides
oncloseOutcome(st, s, fnResult) ==
    LET rs == reconnectSettings(OptionsOf(st, s))
    IN  IF st.explicitlyClosed THEN "explicit"
        ELSE IF ~rs.defined THEN "error"
        ELSE IF canKeepRetrying(MaxRetriesOf(rs), st.retriesCount, fnResult)
            THEN "retry"
        ELSE "failed"

\* whether onclose calls the caller's retries predicate, and what it returns
predicateAsked(st, s, fnResult) ==
    LET rs == reconnectSettings(OptionsOf(st, s))
    IN  IF ~st.explicitlyClosed /\ rs.defined /\ MaxRetriesOf(rs).type = "function"
            THEN (IF fnResult THEN "true" ELSE "false")
            ELSE "none"

\* transport.connection.onclose
onclose(st, s, fnResult) ==
    LET st1 == [st EXCEPT !.isOpen = FALSE]
        out == oncloseOutcome(st1, s, fnResult)
    IN  CASE out = "explicit" -> st1
          [] out = "retry" -> ScheduleReconnect(st1, s)
          [] out = "failed" -> CallOnFailed(st1, s)
          [] out = "error" -> CallOnError(st1, s)

\* transport.connection.onopen
onopen(st) == [st EXCEPT !.isOpen = TRUE, !.retriesCount = 0]

\* transport.connection.onerror
onerror(st, s) == CallOnError([st EXCEPT !.isOpen = FALSE], s)

\* client.close(): closes the socket if it is not closing or closed already
clientClose(st, s) ==
    IF st.sess[s].sock \in {"connecting", "open"}
        THEN [st EXCEPT !.sess[s].sock = "closing"]
        ELSE st

\* subscribe() after the await, when the request resolved
subscribeResolved(st, s) ==
    [st EXCEPT !.explicitlyClosed = FALSE,
               !.retriesCount = 0,
               !.sess[s].hs = "ok",
               !.sess[s].subscriptionId = NodeSubscriptionId(s)]

\* a variant that treats a rejected handshake like an unexpected close
subscribeRejected_Retried(st, s) ==
    LET st1 == [st EXCEPT !.sess[s].hs = "failed"]
    IN  IF reconnectSettings(OptionsOf(st, s)).defined
            THEN ScheduleReconnect(st1, s)
            ELSE CallOnError(st1, s)

\* a variant whose .catch schedules another attempt after reporting
subscribeRejected_Chained(st, s) ==
    LET st1 == [st EXCEPT !.sess[s].hs = "failed"]
    IN  IF st.sess[s].parent # 0
            THEN ScheduleReconnect(CallOnError(st1, st.sess[s].parent), st.sess[s].parent)
            ELSE st1

\* subscribe() when the request rejected: the promise rejects; a reconnect
\* timer's call has the .catch of the closure that set the timer
subscribeRejected(st, s) ==
    LET st1 == [st EXCEPT !.sess[s].hs = "failed"]
    IN  IF st.sess[s].parent # 0 THEN CallOnError(st1, st.sess[s].parent) ELSE st1

\* a variant that reconnects with no userOptions instead of the caller's
timerCallback_DefaultOptions(st, t) ==
    [st EXCEPT !.timers = @ \ {t},
               !.sess = Append(@, NewSession(t.id, st.sess[t.id].request,
                                             WS_DEFAULT_OPTIONS))]

\* the body of the setTimeout callback: this.subscribe(request, userOptions)
timerCallback(st, t) ==
    [st EXCEPT !.timers = @ \ {t},
               !.sess = Append(@, NewSession(t.id, st.sess[t.id].request,
                                             st.sess[t.id].userOptions))]

(* ---------------------------- Subscription ----------------------------- *)
\* Subscription.next(callback)
next(st, s) == [st EXCEPT !.sess[s].regAt = Len(st.sess[s].arrived)]

\* Subscription.close()
close(st, s) ==
    clientClose([st EXCEPT !.explicitlyClosed = TRUE,
                           !.sess[s].closeCalled = TRUE], s)

\* Subscription.getSubscriptionId()
getSubscriptionId(st, s) == st.sess[s].subscriptionId

\* Subscription.isConnectionOpen()
isConnectionOpen(st, s) == st.isOpen

\* a variant that hands every notification to the callback
onNotification_Unfiltered(st, s, v) ==
    LET st1 == [st EXCEPT !.sess[s].got = Append(@, v)]
    IN  IF OptionsOf(st, s).once THEN clientClose(st1, s) ELSE st1

\* the client.onNotification listener that next() registers
onNotification(st, s, v) ==
    LET o == OptionsOf(st, s)
    IN  IF ~FilterAccepts(o.filter, v) THEN st
        ELSE LET st1 == [st EXCEPT !.sess[s].got = Append(@, v)]
             IN  IF o.once THEN clientClose(st1, s) ELSE st1

\* a variant that passes the error through the filter like a notification
onErrorListener_Filtered(st, s) ==
    IF FilterAccepts(OptionsOf(st, s).filter, ErrorValue)
        THEN [st EXCEPT !.sess[s].got = Append(@, ErrorValue)]
        ELSE st

\* the client.onError listener that next() registers
onErrorListener(st, s) == [st EXCEPT !.sess[s].got = Append(@, ErrorValue)]

(* ------------------------------ actions -------------------------------- *)
\* the caller calls subscribe(request, userOptions)
Subscribe(request, userOptions) ==
    /\ Len(sess) < MaxSessions
    /\ Cardinality(Roots) < MaxRoots
    /\ Apply([Cur EXCEPT !.sess = Append(@, NewSession(0, request, userOptions))])
    /\ last' = [op |-> "subscribe", s |-> Len(sess) + 1, out |-> "none", fn |-> "none"]

\* the socket of call s opens; its onopen handler runs if it is assigned.
\* (Nothing observes the socket of a rejected call: no handler is assigned
\* and no Subscription was returned, so its events are left out.)
TransportOpen(s) ==
    /\ sess[s].sock = "connecting"
    /\ sess[s].hs # "failed"
    /\ LET st1 == [Cur EXCEPT !.sess[s].sock = "open"]
       IN  Apply(IF Wired(Cur, s) THEN onopen(st1) ELSE st1)
    /\ last' = [op |-> "open", s |-> s,
                out |-> IF Wired(Cur, s) THEN "handled" ELSE "none", fn |-> "none"]

\* the node answers the request of call s with a subscription id
HandshakeOk(s) ==
    /\ sess[s].hs = "pending"
    /\ sess[s].sock = "open"
    /\ Apply(subscribeResolved(Cur, s))
    /\ last' = [op |-> "resolved", s |-> s, out |-> "none", fn |-> "none"]

\* the request of call s times out or fails
HandshakeFail(s) ==
    /\ sess[s].hs = "pending"
    /\ Apply(subscribeRejected(Cur, s))
    /\ last' = [op |-> "rejected", s |-> s, out |-> "none", fn |-> "none"]

\* the caller calls next(callback) on the Subscription of call s
CallNext(s) ==
    /\ Returned(Cur, s)
    /\ sess[s].regAt < 0
    /\ Apply(next(Cur, s))
    /\ last' = [op |-> "next", s |-> s, out |-> "none", fn |-> "none"]

\* the caller calls close() on the Subscription of call s
CallClose(s) ==
    /\ Returned(Cur, s)
    /\ Apply(close(Cur, s))
    /\ last' = [op |-> "close", s |-> s, out |-> "none", fn |-> "none"]

\* a notification with payload v arrives at the client of call s
Notify(s, v) ==
    /\ sess[s].hs = "ok"
    /\ sess[s].sock \in {"open", "closing"}
    /\ Received(Len(sess)) < MaxEvents
    /\ LET st1 == [Cur EXCEPT !.sess[s].arrived = Append(@, v)]
       IN  Apply(IF sess[s].regAt >= 0 THEN onNotification(st1, s, v) ELSE st1)
    /\ last' = [op |-> "notification", s |-> s,
                out |-> IF sess[s].regAt >= 0 THEN "handled" ELSE "none", fn |-> "none"]

\* the transport client of call s reports a protocol error
ProtocolError(s) ==
    /\ sess[s].hs = "ok"
    /\ sess[s].sock \in {"open", "closing"}
    /\ Received(Len(sess)) < MaxEvents
    /\ LET st1 == [Cur EXCEPT !.sess[s].arrived = Append(@, ErrorValue)]
       IN  Apply(IF sess[s].regAt >= 0 THEN onErrorListener(st1, s) ELSE st1)
    /\ last' = [op |-> "protocolError", s |-> s,
                out |-> IF sess[s].regAt >= 0 THEN "handled" ELSE "none", fn |-> "none"]

\* the socket of call s reports an error event; its close event follows
TransportError(s) ==
    /\ sess[s].sock \in {"connecting", "open", "closing"}
    /\ sess[s].hs # "failed"
    /\ LET st1 == [Cur EXCEPT !.sess[s].sock = "errored"]
       IN  Apply(IF Wired(Cur, s) THEN onerror(st1, s) ELSE st1)
    /\ last' = [op |-> "error", s |-> s,
                out |-> IF Wired(Cur, s) THEN "handled" ELSE "none", fn |-> "none"]

\* the socket of call s reports its close event
TransportClose(s, fnResult) ==
    /\ sess[s].sock # "closed"
    /\ sess[s].hs # "failed"
    /\ LET st1 == [Cur EXCEPT !.sess[s].sock = "closed"]
       IN  Apply(IF Wired(Cur, s) THEN onclose(st1, s, fnResult) ELSE st1)
    /\ last' = [op |-> "closed", s |-> s,
                out |-> IF Wired(Cur, s)
                            THEN oncloseOutcome(Cur, s, fnResult) ELSE "none",
                fn |-> IF Wired(Cur, s) THEN predicateAsked(Cur, s, fnResult) ELSE "none"]

\* a pending reconnect timeout fires
TimerFire(t) ==
    /\ t \in timers
    /\ Len(sess) < MaxSessions
    /\ Apply(timerCallback(Cur, t))
    /\ last' = [op |-> "timer", s |-> Len(sess) + 1, out |-> "none", fn |-> "none"]

Init ==
    /\ isOpen = FALSE
    /\ explicitlyClosed = FALSE
    /\ retriesCount = 0
    /\ reconnectTimer = 0
    /\ timers = {}
    /\ sess = <<>>
    /\ last = [op |-> "init", s |-> 0, out |-> "none", fn |-> "none"]

\* the connection events and the caller's close() of the calls made so far
Lifecycle ==
    \/ \E s \in Sessions : TransportOpen(s)
    \/ \E s \in Sessions : HandshakeOk(s)
    \/ \E s \in Sessions : HandshakeFail(s)
    \/ \E s \in Sessions : CallClose(s)
    \/ \E s \in Sessions : TransportError(s)
    \/ \E s \in Sessions, b \in BOOLEAN : TransportClose(s, b)
    \/ \E t \in timers : TimerFire(t)

\* the caller's next() and the messages routed to the registered callback
Router ==
    \/ \E s \in Sessions : CallNext(s)
    \/ \E s \in Sessions, v \in Values : Notify(s, v)
    \/ \E s \in Sessions : ProtocolError(s)

\* one caller subscription, of any options, and its reconnections
Next ==
    \/ \E r \in Requests, o \in UserOptionsSet : sess = <<>> /\ Subscribe(r, o)
    \/ Lifecycle
    \/ Router

\* several caller subscriptions on the one WebSocketClient; their messages,
\* which touch no field of the manager when once is false, are left out
NextMulti ==
    \/ \E r \in Requests, o \in SharedOptionsSet : Subscribe(r, o)
    \/ Lifecycle

Spec == Init /\ [][Next]_vars

SpecMulti == Init /\ [][NextMulti]_vars

\* several caller subscriptions made with the same userOptions, which
\* cover the reconnect policy: the subscriptions drive the shared counter
NextPolicy ==
    \/ \E r \in Requests, o \in PolicyOptionsSet :
          (IF sess = <<>> THEN TRUE ELSE o = sess[1].userOptions)
          /\ Subscribe(r, o)
    \/ Lifecycle

SpecPolicy == Init /\ [][NextPolicy]_vars

\* the options with autoReconnect enabled and unbounded retries
LiveOptionsSet ==
    {o \in AllUserOptions :
        /\ ~o.once /\ o.filter = "undefined"
        /\ \/ o.autoReconnect.kind = "true"
           \/ /\ o.autoReconnect.kind = "object"
              /\ \/ o.autoReconnect.retries.type = "undefined"
                 \/ /\ o.autoReconnect.retries.type = "number"
                    /\ o.autoReconnect.retries.n < 0}

\* one caller subscription with unbounded retries whose close() is never called
NextLive ==
    \/ \E r \in Requests, o \in LiveOptionsSet : sess = <<>> /\ Subscribe(r, o)
    \/ \E s \in Sessions : TransportOpen(s)
    \/ \E s \in Sessions : HandshakeOk(s)
    \/ \E s \in Sessions : HandshakeFail(s)
    \/ \E s \in Sessions : TransportError(s)
    \/ \E s \in Sessions, b \in BOOLEAN : TransportClose(s, b)
    \/ \E t \in timers : TimerFire(t)

\* setTimeout callbacks run: a pending timer that can fire eventually fires
SpecLive == Init /\ [][NextLive]_vars /\ WF_vars(\E t \in timers : TimerFire(t))

\* the userOptions a caller hands to a block helper, with and without a filter
BlockUserOptionsSet ==
    {o \in AllUserOptions :
        ~o.once /\ ~o.onError /\ o.autoReconnect.kind = "undefined"}

\* const options = { ...WS_DEFAULT_OPTIONS, ...userOptions, filter: isX }
BlockOptions(userOptions, typeFilter) ==
    [MergeOptions(userOptions) EXCEPT !.filter = typeFilter]

\* this.ws.subscribe({ method: 'subscribeForHeadBlock', ... }, options)
SubscribeForBlockType(helper, typeFilter, userOptions) ==
    /\ Len(sess) < MaxSessions
    /\ Cardinality(Roots) < MaxRoots
    /\ Apply([Cur EXCEPT !.sess = Append(@,
                 NewSession(0, "subscribeForHeadBlock",
                            BlockOptions(userOptions, typeFilter)))])
    /\ last' = [op |-> helper, s |-> Len(sess) + 1,
                out |-> userOptions.filter, fn |-> "none"]

subscribeForElectionBlocks(userOptions) ==
    SubscribeForBlockType("subscribeForElectionBlocks", "isElection", userOptions)

subscribeForMicroBlocks(userOptions) ==
    SubscribeForBlockType("subscribeForMicroBlocks", "isMicro", userOptions)

subscribeForMacroBlocks(userOptions) ==
    SubscribeForBlockType("subscribeForMacroBlocks", "isMacro", userOptions)

\* block subscriptions made through the helpers and the blocks they receive
NextBlocks ==
    \/ \E o \in BlockUserOptionsSet : subscribeForElectionBlocks(o)
    \/ \E o \in BlockUserOptionsSet : subscribeForMicroBlocks(o)
    \/ \E o \in BlockUserOptionsSet : subscribeForMacroBlocks(o)
    \/ \E s \in Sessions : TransportOpen(s)
    \/ \E s \in Sessions : HandshakeOk(s)
    \/ \E s \in Sessions : CallNext(s)
    \/ \E s \in Sessions, b \in Blocks : Notify(s, b)

SpecBlocks == Init /\ [][NextBlocks]_vars

(* ------------------------ vocabulary of the claims --------------------- *)
\* the notifications among the values of q (protocol errors left out)
Notifs(q) == SelectSeq(q, LAMBDA m : m # ErrorValue)

\* the messages call s received after next() registered the callback
Handled(s) ==
    IF sess[s].regAt < 0 THEN <<>>
    ELSE SubSeq(sess[s].arrived, sess[s].regAt + 1, Len(sess[s].arrived))

\* the values of q that the predicate named filter accepts
AcceptedBy(filter, q) ==
    SelectSeq(q, LAMBDA m : m # ErrorValue /\
        ((filter = "gt10" /\ m > 10) \/ filter = "acceptAll"))

\* the calls a reconnect timer made
Reconnects == {c \in Sessions : sess[c].parent # 0}

RECURSIVE AcceptedOnReconnects(_, _)
\* number of accepted notifications that arrived on the reconnections,
\* among calls 1..n, of the caller's call r
AcceptedOnReconnects(r, n) ==
    IF n = 0 THEN 0
    ELSE AcceptedOnReconnects(r, n - 1)
            + (IF sess[n].parent # 0 /\ RootOf(n) = r
                   THEN Len(AcceptedBy(OptionsOf(Cur, r).filter, sess[n].arrived))
                   ELSE 0)

RECURSIVE SumOnFailed(_)
\* number of onFailed invocations by the closures of calls 1..n
SumOnFailed(n) == IF n = 0 THEN 0 ELSE sess[n].onFailedCalls + SumOnFailed(n - 1)

(* ------------------------------- claims -------------------------------- *)
\* C1: once close() was called on the Subscription, no reconnect attempt is
\* scheduled or executed: no timer is added and no timer calls subscribe.
C1_NoReconnectAfterClose ==
    [][(\E r \in Roots : sess[r].closeCalled)
          => (Len(sess') = Len(sess) /\ timers' \subseteq timers)]_vars

\* C2: with numeric retries = k >= 0, the unexpected close that follows k
\* reconnect attempts invokes onFailed once and schedules nothing, and there
\* are never more than k reconnect attempts.
C2_RetriesExhausted ==
    \A s \in Sessions :
        LET rs == reconnectSettings(OptionsOf(Cur, s))
        IN  (rs.defined /\ rs.retries.type = "number" /\ rs.retries.n >= 0)
              => /\ Cardinality(Reconnects) <= rs.retries.n
                 /\ (/\ last.op = "closed" /\ last.s = s
                     /\ last.out \in {"retry", "failed"}
                     /\ Cardinality(Reconnects) = rs.retries.n)
                      => /\ last.out = "failed"
                         /\ timers = {}
                         /\ rs.onFailed => SumOnFailed(Len(sess)) = 1

\* C3: a callback that next() registered on the original Subscription, and
\* that was in use before the disconnection, is invoked for every accepted
\* notification that arrives on a reconnected session.
C3_CallbackFollowsReconnect ==
    \A r \in Roots :
        sess[r].got # <<>>
          => Len(Notifs(sess[r].got))
               = Len(AcceptedBy(OptionsOf(Cur, r).filter, Handled(r)))
                   + AcceptedOnReconnects(r, Len(sess))

\* C4: after a successful reconnection, getSubscriptionId() of the original
\* Subscription returns the id the node assigned to the newest session.
C4_NewIdObserved ==
    \A c \in Reconnects :
        (/\ sess[c].hs = "ok"
         /\ \A d \in Reconnects : RootOf(d) = RootOf(c) => d <= c)
          => getSubscriptionId(Cur, RootOf(c)) = sess[c].subscriptionId

\* C5: the callback is invoked exactly with the notifications the filter
\* accepts among those routed to it, in arrival order.
C5_FilterRouting ==
    \A s \in Sessions :
        Notifs(sess[s].got) = AcceptedBy(OptionsOf(Cur, s).filter, Handled(s))

C5_Witness ==
    \E s \in Sessions :
        /\ OptionsOf(Cur, s).filter = "gt10"
        /\ Handled(s) = <<5, 20>>
        /\ sess[s].got = <<20>>

\* C6: with once = true the callback fires for the first accepted
\* notification and for no notification after it.
C6_OnceFiresOnce ==
    \A s \in Sessions :
        OptionsOf(Cur, s).once => Len(Notifs(sess[s].got)) <= 1

\* C7: a caller's subscribe whose handshake fails is not retried: it sets no
\* timer, no call is made for it, and neither onFailed nor onError is invoked.
C7_InitialFailureNotRetried ==
    \A s \in Roots :
        sess[s].hs = "failed"
          => /\ sess[s].onErrorCalls = 0
             /\ sess[s].onFailedCalls = 0
             /\ reconnectTimer # s
             /\ ~ \E t \in timers : t.id = s
             /\ ~ \E c \in Sessions : sess[c].parent = s

C7_Witness ==
    \E s \in Roots :
        /\ sess[s].hs = "failed"
        /\ reconnectSettings(OptionsOf(Cur, s)).defined
        /\ OptionsOf(Cur, s).onError

\* the step is the close handler of call s denying a further attempt
DenyStep(s) == last'.op = "closed" /\ last'.s = s /\ last'.out = "failed"

C9_SessionsIndependent ==
    [][\A a \in Roots :
          (sess[a].hs = "ok"
              /\ last'.s \in Sessions /\ last'.op \notin {"subscribe", "timer"}
              /\ RootOf(last'.s) # a)
            => /\ retriesCount' = retriesCount
               /\ explicitlyClosed' = explicitlyClosed
               /\ isOpen' = isOpen
               /\ {t \in timers : RootOf(t.id) = a} \subseteq timers']_vars

\* C10: a protocol error on a session with a registered callback is handed
\* to the callback whatever the filter, and closes nothing, leaves the
\* explicitly-closed flag alone and schedules no reconnect.
C10_ErrorsBypassFilter ==
    [][\A s \in Sessions :
          (last'.op = "protocolError" /\ last'.s = s /\ sess[s].regAt >= 0)
            => /\ sess'[s].got = Append(sess[s].got, ErrorValue)
               /\ sess'[s].sock = sess[s].sock
               /\ explicitlyClosed' = explicitlyClosed
               /\ timers' = timers
               /\ reconnectTimer' = reconnectTimer]_vars

C10_Witness ==
    \E s \in Sessions :
        /\ OptionsOf(Cur, s).filter = "rejectAll"
        /\ sess[s].got = <<ErrorValue>>
        /\ sess[s].sock = "open"

\* the reference reconnect policy over the autoReconnect setting a, the
\* number of attempts made so far and the answer of the retries predicate
C11_Reference(a, attempted, answer) ==
    CASE a.kind \in {"undefined", "false"} -> "error"
      [] a.kind = "true" -> "retry"
      [] a.kind = "object" /\ a.retries.type = "undefined" -> "retry"
      [] a.kind = "object" /\ a.retries.type = "number" ->
            IF a.retries.n < 0 \/ attempted < a.retries.n THEN "retry" ELSE "failed"
      [] a.kind = "object" /\ a.retries.type = "function" ->
            IF answer = "true" THEN "retry" ELSE "failed"

\* C11: the decision of an unexpected close equals the reference policy over
\* (settings, retriesCount): no autoReconnect calls onError and never retries;
\* a predicate is asked at that close and its answer decides; a permitted
\* attempt adds one to the counter and sets one timer with the delay given
\* (1000 when absent); a denied one sets no timer and calls onFailed.
C11_DecisionMatchesPolicy ==
    [][\A s \in Sessions :
          (last'.op = "closed" /\ last'.s = s /\ Wired(Cur, s) /\ ~explicitlyClosed)
            => LET a == sess[s].userOptions.autoReconnect
                   ref == C11_Reference(a, retriesCount, last'.fn)
               IN  /\ last'.out = ref
                   /\ last'.fn # "none"
                         <=> (a.kind = "object" /\ a.retries.type = "function")
                   /\ ref = "error"
                        => /\ timers' = timers /\ retriesCount' = retriesCount
                           /\ sess[s].userOptions.onError
                                => sess'[s].onErrorCalls = sess[s].onErrorCalls + 1
                   /\ ref = "retry"
                        => /\ retriesCount' = retriesCount + 1
                           /\ reconnectTimer' = s
                           /\ timers' = {[id |-> s,
                                 delay |-> IF a.kind = "object" /\ a.delay # NoDelay
                                               THEN a.delay ELSE DefaultDelay]}
                           /\ sess'[s].onErrorCalls = sess[s].onErrorCalls
                           /\ sess'[s].onFailedCalls = sess[s].onFailedCalls
                   /\ ref = "failed"
                        => /\ timers' = timers /\ retriesCount' = retriesCount
                           /\ sess'[s].onErrorCalls = sess[s].onErrorCalls
                           /\ sess'[s].onFailedCalls = sess[s].onFailedCalls
                                 + (IF a.onFailed THEN 1 ELSE 0)]_vars

C11_Witness ==
    /\ last.op = "closed" /\ last.out = "failed"
    /\ sess[last.s].userOptions.autoReconnect.retries = [type |-> "number", n |-> 1]
    /\ sess[last.s].userOptions.autoReconnect.delay = 10
    /\ retriesCount = 1
    /\ timers = {[id |-> 1, delay |-> 10]}

\* C12: the explicitly-closed flag is monotonic: once close() has set it, no
\* later event (a handshake of a reconnect or of another subscribe call, an
\* open, close or error event) clears it.
C12_FlagMonotonic == [][explicitlyClosed => explicitlyClosed']_vars

\* C13: close() sets the explicitly-closed flag, leaves no reconnect timer
\* pending and closes the transport; a second close() changes nothing and
\* triggers no callback and no reconnect.
C13_CloseCancelsAndIsIdempotent ==
    [][\A s \in Sessions :
          (last'.op = "close" /\ last'.s = s)
            => /\ explicitlyClosed'
               /\ timers' = {}
               /\ sess'[s].sock \notin {"connecting", "open"}
               /\ sess[s].closeCalled
                    => (sess' = sess /\ timers' = timers
                          /\ explicitlyClosed' = explicitlyClosed
                          /\ retriesCount' = retriesCount)]_vars

\* C14: with once = true, the close event of the socket that the subscription
\* closed after its first accepted notification is handled like that of a
\* caller's close(): no reconnect is scheduled, and neither onFailed nor
\* onError is invoked.
C14_OnceCloseIsExplicit ==
    [][\A s \in Sessions :
          (/\ last'.op = "closed" /\ last'.s = s
           /\ OptionsOf(Cur, s).once
           /\ Notifs(sess[s].got) # <<>>
           /\ sess[s].sock = "closing")
            => /\ timers' = timers
               /\ retriesCount' = retriesCount
               /\ sess'[s].onErrorCalls = sess[s].onErrorCalls
               /\ sess'[s].onFailedCalls = sess[s].onFailedCalls]_vars

\* C15: an error event of the socket of an established session invokes
\* options.onError only when no reconnection is configured: with autoReconnect
\* configured the error event invokes onError zero times.
C15_ErrorSilentWithReconnect ==
    [][\A s \in Sessions :
          (/\ last'.op = "error" /\ last'.s = s /\ Wired(Cur, s)
           /\ reconnectSettings(OptionsOf(Cur, s)).defined)
            => sess'[s].onErrorCalls = sess[s].onErrorCalls]_vars

\* C16: when the handshake of a reconnect's subscribe call fails, onError is
\* invoked once and nothing else happens: no timer is set, the counter stays,
\* and afterwards no timer is pending and no further subscribe call is made.
C16_FailedReconnectReportedOnce ==
    [][\A c \in Reconnects :
          /\ (last'.op = "rejected" /\ last'.s = c)
               => /\ sess'[sess[c].parent].onErrorCalls
                        = sess[sess[c].parent].onErrorCalls
                            + (IF OptionsOf(Cur, c).onError THEN 1 ELSE 0)
                  /\ sess'[sess[c].parent].onFailedCalls
                        = sess[sess[c].parent].onFailedCalls
                  /\ timers' = timers
                  /\ reconnectTimer' = reconnectTimer
                  /\ retriesCount' = retriesCount
                  /\ Len(sess') = Len(sess)
          /\ sess[c].hs = "failed"
               => /\ timers' = {}
                  /\ Len(sess') = Len(sess)]_vars

C16_Witness ==
    /\ last.op = "rejected"
    /\ last.s \in Reconnects
    /\ OptionsOf(Cur, last.s).onError
    /\ sess[sess[last.s].parent].onErrorCalls = 1
    /\ timers = {}

\* C17: at most one reconnect timer is pending on the manager, and it is the
\* one whose handle the manager holds: scheduling a reconnect cancels the
\* timer still pending, so two unexpected closes leave one timer.
C17_OneTimerPending ==
    /\ Cardinality(timers) <= 1
    /\ \A t \in timers : t.id = reconnectTimer

C17_Witness ==
    /\ Len(sess) = 2 /\ Roots = {1, 2}
    /\ sess[1].hs = "ok" /\ sess[1].sock = "closed" /\ ~sess[1].closeCalled
    /\ reconnectSettings(OptionsOf(Cur, 1)).defined
    /\ sess[1].onFailedCalls = 0
    /\ last.op = "closed" /\ last.s = 2 /\ last.out = "retry"
    /\ timers = {[id |-> 2, delay |-> DefaultDelay]}

\* C18: isConnectionOpen() of a Subscription returns true while its subscribe
\* has resolved, its socket has seen no close or error event and close() was
\* not called, and false once its socket saw a close or error event.
C18_IsOpenReflectsConnection ==
    \A s \in Roots :
        /\ (Returned(Cur, s) /\ sess[s].sock = "open" /\ ~sess[s].closeCalled)
              => isConnectionOpen(Cur, s)
        /\ (Returned(Cur, s) /\ last.s = s /\ last.op \in {"closed", "error"})
              => ~isConnectionOpen(Cur, s)

\* C19: with one subscription, unbounded retries, no close() and timers that
\* fire, every unexpected close of an established session is eventually
\* followed by a new subscribe call with the same request and userOptions on
\* a new transport, and when the handshake of a reconnect's call has
\* succeeded the retry counter is zero.
C19_CloseLeadsToResubscribe ==
    /\ \A s \in 1..(MaxSessions - 1) :
          (Len(sess) >= s /\ sess[s].hs = "ok" /\ sess[s].sock = "closed")
            ~> (/\ Len(sess) > s
                /\ sess[s + 1].parent = s
                /\ sess[s + 1].request = sess[s].request
                /\ sess[s + 1].userOptions = sess[s].userOptions)
    /\ [](\A c \in Reconnects :
            (last.op = "resolved" /\ last.s = c) => retriesCount = 0)

C19_Witness ==
    /\ Len(sess) = 2
    /\ sess[1].hs = "ok" /\ sess[1].sock = "closed"
    /\ sess[2].parent = 1 /\ sess[2].userOptions = sess[1].userOptions
    /\ last.op = "resolved" /\ last.s = 2
    /\ retriesCount = 0

\* the type filter each helper is to use
C20_FilterOfHelper ==
    [subscribeForElectionBlocks |-> "isElection",
     subscribeForMicroBlocks |-> "isMicro",
     subscribeForMacroBlocks |-> "isMacro"]

\* the blocks of q of the class the type filter names, classified by the
\* isElectionBlock field alone
C20_BlocksOfClass(typeFilter, q) ==
    SelectSeq(q, LAMBDA b :
        CASE typeFilter = "isMicro" -> "isElectionBlock" \notin DOMAIN b
          [] typeFilter = "isElection" ->
                "isElectionBlock" \in DOMAIN b /\ b.isElectionBlock = TRUE
          [] typeFilter = "isMacro" ->
                "isElectionBlock" \in DOMAIN b /\ b.isElectionBlock = FALSE)

\* C20: exactly one of isMicro, isMacro, isElection accepts a block (micro iff
\* it has no isElectionBlock field, election iff the field is true, macro iff
\* it is false); a helper's subscription uses the helper's own filter whatever
\* filter the caller supplied, and its callback gets the blocks of that class.
C20_BlockFiltersPartition ==
    /\ \A b \in Blocks :
          /\ Cardinality({f \in {"isMicro", "isMacro", "isElection"} :
                              FilterAccepts(f, b)}) = 1
          /\ isMicro(b) <=> "isElectionBlock" \notin DOMAIN b
          /\ isElection(b) <=> ("isElectionBlock" \in DOMAIN b /\ b.isElectionBlock)
          /\ isMacro(b) <=> ("isElectionBlock" \in DOMAIN b /\ ~b.isElectionBlock)
    /\ last.op \in DOMAIN C20_FilterOfHelper
          => OptionsOf(Cur, last.s).filter = C20_FilterOfHelper[last.op]
    /\ \A s \in Sessions :
          /\ OptionsOf(Cur, s).filter \in {"isMicro", "isMacro", "isElection"}
          /\ sess[s].got = C20_BlocksOfClass(OptionsOf(Cur, s).filter, Handled(s))

C20_Witness ==
    /\ Len(sess) = 2
    /\ OptionsOf(Cur, 1).filter = "isMacro"
    /\ Len(Handled(1)) = 2
    /\ sess[1].got = <<[hash |-> "h", isElectionBlock |-> FALSE]>>
    /\ last.op = "subscribeForMicroBlocks" /\ last.out = "rejectAll"
    /\ OptionsOf(Cur, 2).filter = "isMicro"
====
